---- MODULE Spec2Model ----
(***************************************************************************)
(* Subprocess lifecycle manager of the voice service control panel         *)
(* (mcp/process_manager.py, driven by the tool handlers of mcp/server.py). *)
(*                                                                         *)
(* The supervisor runs on one asyncio event loop: the code between two     *)
(* awaits is one atomic step.  start, status and view_logs are synchronous *)
(* and are one step each.  stop (and restart, which awaits stop) suspends  *)
(* at the bounded wait of line 134 and, after a timeout, at the unbounded  *)
(* wait of line 139; other handlers, the log reader tasks and the operating*)
(* system (process output, process exit) run in between.                   *)
(***************************************************************************)
EXTENDS Integers, Sequences, FiniteSets, Bags, TLC

(* ---------------------------- bounds ----------------------------------- *)
\* processes the model spawns in one behaviour
MaxProcs == 2
\* output lines the processes write in one behaviour of Spec
MaxLines == 1
\* output lines the processes write in one behaviour of LogSpec
LogLines == 3
\* stop/restart coroutines suspended at the same time
MaxCalls == 1
\* stop/restart coroutines suspended at the same time in RaceSpec
RaceCalls == 2
\* ring-buffer capacity: 500 at process_manager.py:28, scaled down
LOG_BUFFER_SIZE == 2

(* ------------------------ static configuration -------------------------- *)
SERVICE_CONFIG == {"whisper", "tts"}
\* the names callers pass: the configured ones and one that is not configured
Names == SERVICE_CONFIG \cup {"bogus"}
Port(n) == IF n = "whisper" THEN 8100 ELSE 8200

NoProc == 0
NoTask == 0
NoTime == 0
Procs == 1..MaxProcs
\* view_logs(name, lines=50): the default of the lines argument
DefaultLines == 50
\* the lines argument of view_logs: below, inside and above [1, LOG_BUFFER_SIZE]
ReqLines == (0 - 1)..(LOG_BUFFER_SIZE + 1)

VARIABLES
    services,     \* _services: the names that have a ManagedService record
    created,      \* per name: ManagedService objects constructed for it so far
    process,      \* svc.process per name (NoProc = None)
    started_at,   \* svc.started_at per name (NoTime = None)
    logs,         \* svc.logs per name: the deque, oldest first
    reader_task,  \* svc._reader_task per name (NoTask = None)
    nprocs,       \* processes spawned so far; also the logical clock
    psvc,         \* the service a process was spawned for
    alive,        \* the OS reports the process alive (poll() is None)
    written,      \* lines a process has written to its combined output
    pipe,         \* lines written to the stdout pipe and not yet read
    tst,          \* state of the reader task created with process t
    tproc,        \* the process a reader task bound at its first step
    inflight,     \* bag of suspended stop/restart coroutines
    appended,     \* per name: every line appended since the last clear
    ret           \* what the operation completing in the last step returned or
                  \* raised; NoResult after a step that completes none

vars == <<services, created, process, started_at, logs, reader_task, nprocs, psvc,
          alive, written, pipe, tst, tproc, inflight,
          appended, ret>>

regVars == <<services, created>>
recVars == <<process, started_at, logs, reader_task>>
osVars == <<nprocs, psvc, alive, written, pipe>>
taskVars == <<tst, tproc>>

(* ----------------------------- ManagedService --------------------------- *)
\* ManagedService.running: a handle exists and poll() reports no exit code
RunningIn(proc, live, n) == proc[n] # NoProc /\ live[proc[n]]
Running(n) == RunningIn(process, alive, n)

\* Popen.pid: one pid per spawned process (the handle the record still holds
\* keeps the pid of the previous process from being given to the next one)
PidOf(p) == p

\* ManagedService.pid
PidIn(proc, n) == IF proc[n] # NoProc THEN PidOf(proc[n]) ELSE NoProc
Pid(n) == PidIn(process, n)

\* ManagedService.uptime_seconds: present iff started_at is set and running
UptimeIn(proc, live, st, n) == st[n] # NoTime /\ RunningIn(proc, live, n)

\* who returns a result: the handler, the lines argument it was called with
\* (view_logs only) and whether its coroutine was suspended in an await
\* before it returned
Sync(op) == [op |-> op, lines |-> 0, awaited |-> FALSE]
Resumed(op) == [op |-> op, lines |-> 0, awaited |-> TRUE]
Query(k) == [op |-> "view_logs", lines |-> k, awaited |-> FALSE]

\* the result record of one operation: the snapshot's fields (StatusSnapshot
\* or LogSnapshot) or the error raised, and who returned it
Result(who, n, kind, msg, run, pid, up, req, lns) ==
    [op |-> who.op, lines |-> who.lines, awaited |-> who.awaited,
     service |-> n, kind |-> kind, message |-> msg,
     running |-> run, pid |-> pid, port |-> IF kind = "status" THEN Port(n) ELSE 0,
     uptime |-> up, lines_requested |-> req, lines_returned |-> Len(lns),
     logs |-> lns]

\* ManagedService.status_dict, with the caller's message
StatusDictIn(who, n, msg, proc, live, st) ==
    Result(who, n, "status", msg, RunningIn(proc, live, n), PidIn(proc, n),
           UptimeIn(proc, live, st, n), 0, <<>>)
StatusDict(who, n, msg) == StatusDictIn(who, n, msg, process, alive, started_at)

\* the ValueError of _get
UnknownService(who, n) ==
    Result(who, n, "error", "Unknown service", FALSE, NoProc, FALSE, 0, <<>>)
\* the OSError Popen raises when the executable cannot be launched
SpawnError(who, n) ==
    Result(who, n, "error", "Spawn failed", FALSE, NoProc, FALSE, 0, <<>>)

NoResult == Result(Sync("none"), "", "none", "", FALSE, NoProc, FALSE, 0, <<>>)

(* ------------------------------- lines ---------------------------------- *)
\* line i of process p as the pipe carries it: its text and whether the
\* newline that ends it is there (readline keeps it)
RawLine(p, i) == [text |-> <<p, i>>, newline |-> TRUE]

\* line.decode("utf-8", errors="replace").rstrip("\n")
Decode(raw) == raw.text

\* a full buffer that refuses the new line instead of dropping its oldest
DequeAppendDropsNewest(buf, x) ==
    IF Len(buf) < LOG_BUFFER_SIZE THEN Append(buf, x) ELSE buf

\* deque(maxlen=LOG_BUFFER_SIZE).append: a full deque drops its oldest item
DequeAppend(buf, x) ==
    IF Len(buf) < LOG_BUFFER_SIZE THEN Append(buf, x) ELSE Append(Tail(buf), x)

\* list(svc.logs)[-k:] for k >= 1
LastLines(buf, k) ==
    IF Len(buf) <= k THEN buf ELSE SubSeq(buf, Len(buf) - k + 1, Len(buf))

Max(a, b) == IF a >= b THEN a ELSE b
Min(a, b) == IF a <= b THEN a ELSE b

\* a clamp without its lower bound
ClampLinesNoFloor(k) == Min(k, LOG_BUFFER_SIZE)

\* max(1, min(lines, LOG_BUFFER_SIZE))
ClampLines(k) == Max(1, Min(k, LOG_BUFFER_SIZE))

(* ------------------------------- Init ----------------------------------- *)
Init ==
    /\ services = {}
    /\ created = [n \in SERVICE_CONFIG |-> 0]
    /\ process = [n \in SERVICE_CONFIG |-> NoProc]
    /\ started_at = [n \in SERVICE_CONFIG |-> NoTime]
    /\ logs = [n \in SERVICE_CONFIG |-> <<>>]
    /\ reader_task = [n \in SERVICE_CONFIG |-> NoTask]
    /\ nprocs = 0
    /\ psvc = [p \in Procs |-> ""]
    /\ alive = [p \in Procs |-> FALSE]
    /\ written = [p \in Procs |-> 0]
    /\ pipe = [p \in Procs |-> <<>>]
    /\ tst = [t \in Procs |-> "none"]
    /\ tproc = [t \in Procs |-> NoProc]
    /\ inflight = EmptyBag
    /\ appended = [n \in SERVICE_CONFIG |-> <<>>]
    /\ ret = NoResult


(* ------------------------------- _get ----------------------------------- *)
\* _get raises ValueError for a name that is not configured
Known(n) == n \in SERVICE_CONFIG

\* _get: the registry after the lookup of a configured name
Get(n) == services \cup {n}

\* a _get that constructs a record at every lookup
CreatedAtEveryLookup(n) == [created EXCEPT ![n] = @ + 1]

\* lines 73-74: a ManagedService is constructed only for a name that has none
Created(n) ==
    IF n \in services THEN created ELSE [created EXCEPT ![n] = @ + 1]

\* _get(name) for a configured name, as the first line of every operation
Lookup(n) ==
    /\ services' = Get(n)
    /\ created' = Created(n)

(* ------------------------------- start ---------------------------------- *)
\* start(name) raising from _get: nothing is touched
StartUnknown(who, n, tst0) ==
    /\ ~Known(n)
    /\ ret' = UnknownService(who, n)
    /\ tst' = tst0
    /\ UNCHANGED <<regVars, recVars, osVars, tproc, appended>>

\* a start that builds its snapshot before it stores the new handle
SpawnEffectsStaleSnapshot(who, n, tst0) ==
    LET p == nprocs + 1 IN
    /\ logs' = [logs EXCEPT ![n] = <<>>]
    /\ appended' = [appended EXCEPT ![n] = <<>>]
    /\ nprocs' = p
    /\ psvc' = [psvc EXCEPT ![p] = n]
    /\ alive' = [alive EXCEPT ![p] = TRUE]
    /\ process' = [process EXCEPT ![n] = p]
    /\ started_at' = [started_at EXCEPT ![n] = p]
    /\ tst' = [tst0 EXCEPT ![p] = "new"]
    /\ reader_task' = [reader_task EXCEPT ![n] = p]
    /\ ret' = StatusDict(who, n, "Started")
    /\ UNCHANGED <<written, pipe, tproc>>

\* lines 101-115: clear the buffer, spawn, stamp, create the reader, snapshot
SpawnEffects(who, n, tst0) ==
    LET p == nprocs + 1 IN
    /\ logs' = [logs EXCEPT ![n] = <<>>]
    /\ appended' = [appended EXCEPT ![n] = <<>>]
    /\ nprocs' = p
    /\ psvc' = [psvc EXCEPT ![p] = n]
    /\ alive' = [alive EXCEPT ![p] = TRUE]
    /\ process' = [process EXCEPT ![n] = p]
    /\ started_at' = [started_at EXCEPT ![n] = p]
    /\ tst' = [tst0 EXCEPT ![p] = "new"]
    /\ reader_task' = [reader_task EXCEPT ![n] = p]
    /\ ret' = StatusDictIn(who, n, "Started", process', alive', started_at')
    /\ UNCHANGED <<written, pipe, tproc>>

\* a start without the running check of line 94: it spawns again
StartAlreadyRespawns(who, n, tst0) ==
    /\ Known(n)
    /\ Running(n)
    /\ nprocs < MaxProcs
    /\ Lookup(n)
    /\ SpawnEffects(who, n, tst0)

\* start(name), lines 93-95: the process is alive
StartAlready(who, n, tst0) ==
    /\ Known(n)
    /\ Running(n)
    /\ Lookup(n)
    /\ ret' = StatusDict(who, n, "Already running")
    /\ tst' = tst0
    /\ UNCHANGED <<recVars, osVars, tproc, appended>>

\* a start that spawns whether or not the process of the record is alive
StartSpawnUnchecked(who, n, tst0) ==
    /\ Known(n)
    /\ nprocs < MaxProcs
    /\ Lookup(n)
    /\ SpawnEffects(who, n, tst0)

\* start(name), lines 97-115: not running, and Popen succeeds
StartSpawn(who, n, tst0) ==
    /\ Known(n)
    /\ ~Running(n)
    /\ nprocs < MaxProcs
    /\ Lookup(n)
    /\ SpawnEffects(who, n, tst0)

\* a start that stamps started_at before it spawns
StartSpawnFailsStamped(who, n, tst0) ==
    /\ Known(n)
    /\ ~Running(n)
    /\ Lookup(n)
    /\ logs' = [logs EXCEPT ![n] = <<>>]
    /\ appended' = [appended EXCEPT ![n] = <<>>]
    /\ started_at' = [started_at EXCEPT ![n] = nprocs + 1]
    /\ ret' = SpawnError(who, n)
    /\ tst' = tst0
    /\ UNCHANGED <<process, reader_task, osVars, tproc>>

\* start(name) when Popen raises (line 102): the buffer is already cleared
StartSpawnFails(who, n, tst0) ==
    /\ Known(n)
    /\ ~Running(n)
    /\ Lookup(n)
    /\ logs' = [logs EXCEPT ![n] = <<>>]
    /\ appended' = [appended EXCEPT ![n] = <<>>]
    /\ ret' = SpawnError(who, n)
    /\ tst' = tst0
    /\ UNCHANGED <<process, started_at, reader_task, osVars, tproc>>

\* the body of start(name), called by `who` on the task states tst0
StartFrom(who, n, tst0) ==
    \/ StartUnknown(who, n, tst0)
    \/ StartAlready(who, n, tst0)
    \/ StartSpawn(who, n, tst0)
    \/ StartSpawnFails(who, n, tst0)

\* service_start -> process_manager.start
Start(n) ==
    /\ StartFrom(Sync("start"), n, tst)
    /\ UNCHANGED inflight

(* ------------------------------- stop ----------------------------------- *)
\* a suspended stop or restart coroutine: its name, the wait it awaits
\* ("wait": line 134, "killwait": line 139, after proc.kill()), the local
\* `proc` of line 124 and whether send_signal delivered the CTRL_BREAK
\* (FALSE: it raised OSError, swallowed at line 128)
Call(op, n, pc, p, sig) == [op |-> op, name |-> n, pc |-> pc, proc |-> p, sig |-> sig]

Suspended == BagToSet(inflight)

\* the number of coroutines of `bag` that are among the calls S
CountCalls(bag, S) ==
    LET sum[T \in SUBSET S] ==
            IF T = {} THEN 0
            ELSE LET c == CHOOSE x \in T : TRUE IN CopiesIn(c, bag) + sum[T \ {c}]
    IN sum[S]

\* CTRL_BREAK events sent to process p (line 127) by the coroutines of `bag`.
\* A coroutine stays suspended until p has exited, so while p is alive these
\* are all the signals p was ever sent
SignalsIn(bag, p) == CountCalls(bag, {c \in BagToSet(bag) : c.proc = p /\ c.sig})
Signals(p) == SignalsIn(inflight, p)

\* proc.kill() calls made on process p (line 138) by the coroutines of `bag`
KillsIn(bag, p) == CountCalls(bag, {c \in BagToSet(bag) : c.proc = p /\ c.pc = "killwait"})
Kills(p) == KillsIn(inflight, p)

\* a reader task that is not done(): created and not yet run, or reading
ActiveTask == {"new", "reading"}

\* a cancel that reaches the active reader tasks of every service
CancelEveryReader(n) ==
    [t \in Procs |-> IF tst[t] \in ActiveTask THEN "cancelled" ELSE tst[t]]

\* lines 142-143: cancel the record's reader unless it is done.  A cancelled
\* task appends nothing more: CancelledError is raised at its await
CancelReader(n) ==
    LET t == reader_task[n] IN
    IF t # NoTask /\ tst[t] \in ActiveTask
    THEN [tst EXCEPT ![t] = "cancelled"]
    ELSE tst

\* a _get that creates the record before it checks the name
StopUnknownCreatesRecord(op, n) ==
    /\ ~Known(n)
    /\ services' = services \cup {n}
    /\ UNCHANGED created
    /\ ret' = UnknownService(Sync(op), n)
    /\ UNCHANGED <<recVars, osVars, taskVars, inflight, appended>>

\* stop(name) raising from _get
StopUnknown(op, n) ==
    /\ ~Known(n)
    /\ ret' = UnknownService(Sync(op), n)
    /\ UNCHANGED <<regVars, recVars, osVars, taskVars, inflight, appended>>

\* a stop that cancels the reader before it looks at the process
StopNotRunningCancels(n) ==
    /\ Known(n)
    /\ ~Running(n)
    /\ Lookup(n)
    /\ tst' = CancelReader(n)
    /\ ret' = StatusDict(Sync("stop"), n, "Not running")
    /\ UNCHANGED <<recVars, osVars, tproc, inflight, appended>>

\* stop(name), lines 120-122
StopNotRunning(n) ==
    /\ Known(n)
    /\ ~Running(n)
    /\ Lookup(n)
    /\ ret' = StatusDict(Sync("stop"), n, "Not running")
    /\ UNCHANGED <<recVars, osVars, taskVars, inflight, appended>>

\* stop(name), lines 124-136: signal the process (OSError swallowed) and
\* suspend in the bounded wait, while fewer than `calls` coroutines are
\* suspended
StopSignal(op, n, calls) ==
    /\ Known(n)
    /\ Running(n)
    /\ BagCardinality(inflight) < calls
    /\ Lookup(n)
    /\ \E ok \in BOOLEAN :
        inflight' = inflight (+) SetToBag({Call(op, n, "wait", process[n], ok)})
    /\ UNCHANGED <<recVars, osVars, taskVars, appended>>
    /\ ret' = NoResult

\* service_stop -> process_manager.stop, up to its first await
Stop(n, calls) ==
    \/ StopUnknown("stop", n)
    \/ StopNotRunning(n)
    \/ StopSignal("stop", n, calls)

\* lines 137-139: the 10 s timer fires before the wait has delivered the
\* exit; kill and suspend in the unbounded wait
Timeout(c) ==
    /\ c \in Suspended
    /\ c.pc = "wait"
    /\ inflight' = (inflight (-) SetToBag({c}))
                   (+) SetToBag({Call(c.op, c.name, "killwait", c.proc, c.sig)})
    /\ UNCHANGED <<regVars, recVars, osVars, taskVars, appended>>
    /\ ret' = NoResult

\* a stop that cancels the reader and returns without the exit of its process
StopReturnsBeforeExit(c) ==
    /\ c \in Suspended
    /\ c.op = "stop"
    /\ inflight' = inflight (-) SetToBag({c})
    /\ tst' = CancelReader(c.name)
    /\ ret' = StatusDict(Resumed("stop"), c.name, "Stopped")
    /\ UNCHANGED <<regVars, recVars, osVars, tproc, appended>>

\* lines 141-145: proc.wait() has returned; cancel the reader and return
StopReturn(c) ==
    /\ c \in Suspended
    /\ c.op = "stop"
    /\ ~alive[c.proc]
    /\ inflight' = inflight (-) SetToBag({c})
    /\ tst' = CancelReader(c.name)
    /\ ret' = StatusDict(Resumed("stop"), c.name, "Stopped")
    /\ UNCHANGED <<regVars, recVars, osVars, tproc, appended>>

(* ------------------------------ restart --------------------------------- *)
\* restart(name): the awaited stop raises from _get
RestartUnknown(n) == StopUnknown("restart", n)

\* restart(name) whose stop finds the service not running: start follows in
\* the same step
RestartNotRunning(n) ==
    /\ Known(n)
    /\ ~Running(n)
    /\ StartFrom(Sync("restart"), n, tst)
    /\ UNCHANGED inflight

\* service_restart -> process_manager.restart, up to stop's first await
Restart(n, calls) ==
    \/ RestartUnknown(n)
    \/ RestartNotRunning(n)
    \/ StopSignal("restart", n, calls)

\* a restart that returns what stop returned and never calls start
RestartReturnsStopSnapshot(c) ==
    /\ c \in Suspended
    /\ c.op = "restart"
    /\ ~alive[c.proc]
    /\ inflight' = inflight (-) SetToBag({c})
    /\ tst' = CancelReader(c.name)
    /\ ret' = StatusDict(Resumed("restart"), c.name, "Stopped")
    /\ UNCHANGED <<regVars, recVars, osVars, tproc, appended>>

\* restart(name): the awaited stop returns and start runs in the same step
RestartReturn(c) ==
    /\ c \in Suspended
    /\ c.op = "restart"
    /\ ~alive[c.proc]
    /\ inflight' = inflight (-) SetToBag({c})
    /\ StartFrom(Resumed("restart"), c.name, CancelReader(c.name))

(* -------------------------- status / view_logs -------------------------- *)
\* status(name)
Status(n) ==
    /\ UNCHANGED <<recVars, osVars, taskVars, inflight, appended>>
    /\ IF Known(n)
       THEN /\ Lookup(n)
            /\ ret' = StatusDict(Sync("status"), n, "")
       ELSE /\ UNCHANGED regVars
            /\ ret' = UnknownService(Sync("status"), n)

\* the LogSnapshot view_logs returns
LogSnapshot(n, k) ==
    Result(Query(k), n, "logs", "", FALSE, NoProc, FALSE, ClampLines(k),
           LastLines(logs[n], ClampLines(k)))

\* view_logs(name, lines)
ViewLogs(n, k) ==
    /\ UNCHANGED <<recVars, osVars, taskVars, inflight, appended>>
    /\ IF Known(n)
       THEN /\ Lookup(n)
            /\ ret' = LogSnapshot(n, k)
       ELSE /\ UNCHANGED regVars
            /\ ret' = UnknownService(Query(k), n)

(* ----------------------------- _log_reader ------------------------------ *)
\* lines 80-85: the task's first step binds proc = svc.process and hands the
\* first readline to the executor
ReaderStart(t) ==
    /\ tst[t] = "new"
    /\ tproc' = [tproc EXCEPT ![t] = process[psvc[t]]]
    /\ tst' = [tst EXCEPT ![t] = "reading"]
    /\ UNCHANGED <<regVars, recVars, osVars, inflight, appended>>
    /\ ret' = NoResult

\* lines 85-88: readline returns a line and the task appends it, decoded, to
\* the record's deque.  The executor's read and the task's append are one
\* step: nothing reads the line in between
ReaderAppend(t) ==
    /\ tst[t] = "reading"
    /\ pipe[tproc[t]] # <<>>
    /\ LET line == Head(pipe[tproc[t]]) IN
        /\ logs' = [logs EXCEPT ![psvc[t]] = DequeAppend(@, Decode(line))]
        /\ appended' = [appended EXCEPT ![psvc[t]] = Append(@, Decode(line))]
    /\ pipe' = [pipe EXCEPT ![tproc[t]] = Tail(@)]
    /\ UNCHANGED <<regVars, process, started_at, reader_task, nprocs, psvc,
                   alive, written, taskVars, inflight>>
    /\ ret' = NoResult

\* lines 86-87: readline returns b"" (the process has exited and the pipe is
\* drained) and the task finishes
ReaderEof(t) ==
    /\ tst[t] = "reading"
    /\ pipe[tproc[t]] = <<>>
    /\ ~alive[tproc[t]]
    /\ tst' = [tst EXCEPT ![t] = "done"]
    /\ UNCHANGED <<regVars, recVars, osVars, tproc, inflight, appended>>
    /\ ret' = NoResult

(* --------------------------- the child process -------------------------- *)
\* lines written so far by the processes 1..k
RECURSIVE TotalWritten(_)
TotalWritten(k) == IF k = 0 THEN 0 ELSE written[k] + TotalWritten(k - 1)

\* the service writes one line to its combined stdout/stderr
ProcWrite(p, max) ==
    /\ alive[p]
    /\ TotalWritten(MaxProcs) < max
    /\ written' = [written EXCEPT ![p] = @ + 1]
    /\ pipe' = [pipe EXCEPT ![p] = Append(@, RawLine(p, written[p] + 1))]
    /\ UNCHANGED <<regVars, recVars, nprocs, psvc, alive, taskVars, inflight,
                   appended>>
    /\ ret' = NoResult

\* the service exits: on its own, on CTRL_BREAK, or killed
ProcExit(p) ==
    /\ alive[p]
    /\ alive' = [alive EXCEPT ![p] = FALSE]
    /\ UNCHANGED <<regVars, recVars, nprocs, psvc, written, pipe, taskVars,
                   inflight, appended>>
    /\ ret' = NoResult

(* ------------------------------- Spec ----------------------------------- *)
\* the tool handlers called with a name of `names`, at most `calls` suspended
\* coroutines, the reader tasks and the child processes, writing at most
\* `lines` lines
NextFor(names, lines, reqs, calls) ==
    \/ \E n \in names : Start(n)
    \/ \E n \in names : Stop(n, calls)
    \/ \E n \in names : Restart(n, calls)
    \/ \E n \in names : Status(n)
    \/ \E n \in names, k \in reqs : ViewLogs(n, k)
    \/ \E c \in Suspended : Timeout(c)
    \/ \E c \in Suspended : StopReturn(c)
    \/ \E c \in Suspended : RestartReturn(c)
    \/ \E t \in Procs : ReaderStart(t)
    \/ \E t \in Procs : ReaderAppend(t)
    \/ \E t \in Procs : ReaderEof(t)
    \/ \E p \in Procs : ProcWrite(p, lines)
    \/ \E p \in Procs : ProcExit(p)

\* the whole supervisor: both services and an unknown name; view_logs is
\* called with its default argument
Next == NextFor(Names, MaxLines, {DefaultLines}, MaxCalls)

Spec == Init /\ [][Next]_vars

\* one service and its log: processes that write more than the buffer holds
LogNames == {"whisper", "bogus"}

LogNext == NextFor(LogNames, LogLines, ReqLines, MaxCalls)

LogSpec == Init /\ [][LogNext]_vars

\* one service and requests that arrive while another is still suspended
RaceNext == NextFor(LogNames, MaxLines, {DefaultLines}, RaceCalls)

RaceSpec == Init /\ [][RaceNext]_vars

(* ------------------------------- claims --------------------------------- *)
UnknownNames == Names \ SERVICE_CONFIG

\* C1: for a name that is not configured, each of start, stop, restart,
\* status and view_logs fails with the unknown-service error and leaves the
\* registry, every record, every process and every task as they were: no
\* record is created for the name, nothing is spawned, nothing is signalled.
C1_UnknownServiceRejected ==
    [][\A n \in UnknownNames :
          (\/ Start(n) \/ Stop(n, MaxCalls) \/ Restart(n, MaxCalls) \/ Status(n)
           \/ ViewLogs(n, DefaultLines))
          => /\ ret'.kind = "error"
             /\ ret'.message = "Unknown service"
             /\ n \notin services'
             /\ UNCHANGED <<regVars, recVars, osVars, taskVars, inflight>>]_vars

\* C1 witness: restart of an unknown name has just failed while a service
\* is running and a record exists
C1_Witness ==
    /\ ret.op = "restart"
    /\ ret.kind = "error"
    /\ ret.service \in UnknownNames
    /\ services # {}
    /\ \E n \in SERVICE_CONFIG : Running(n)

\* C2: start on a running service returns "Already running" with the pid
\* of the running process, spawns nothing, creates no reader task and leaves
\* the record's handle, started_at and log buffer unchanged.
C2_StartIdempotent ==
    [][\A n \in SERVICE_CONFIG :
          (Running(n) /\ Start(n))
          => /\ ret'.message = "Already running"
             /\ ret'.running
             /\ ret'.pid = PidOf(process[n])
             /\ UNCHANGED <<recVars, osVars, taskVars>>]_vars

\* C2 witness: a start has just answered "Already running"
C2_Witness ==
    /\ ret.op = "start"
    /\ ret.message = "Already running"
    /\ Running(ret.service)

\* C3: stop on a service with no live process returns "Not running", sends
\* no signal, issues no kill and leaves the record's handle, log buffer and
\* reader task unchanged.
C3_StopNotRunningIsNoop ==
    [][\A n \in SERVICE_CONFIG :
          (~Running(n) /\ Stop(n, MaxCalls))
          => /\ ret'.message = "Not running"
             /\ ~ret'.running
             /\ \A p \in Procs : /\ SignalsIn(inflight', p) = Signals(p)
                                 /\ KillsIn(inflight', p) = Kills(p)
             /\ UNCHANGED <<recVars, osVars, taskVars, inflight>>]_vars

\* C3 witness: stop has just answered "Not running" for a service whose
\* process exited on its own and whose reader task is still reading
C3_Witness ==
    /\ ret.op = "stop"
    /\ ret.message = "Not running"
    /\ ret.pid # NoProc
    /\ reader_task[ret.service] # NoTask
    /\ tst[reader_task[ret.service]] \in ActiveTask

\* C4: after a start that spawns a process ("Started"), the snapshot it
\* returns and the status in the state it leaves report running and the pid
\* of the process this start spawned.
C4_StartedReportsRunning ==
    [][\A n \in SERVICE_CONFIG :
          (Start(n) /\ ret'.message = "Started")
          => /\ nprocs' = nprocs + 1
             /\ psvc'[nprocs'] = n
             /\ alive'[nprocs']
             /\ ret'.running
             /\ ret'.pid = PidOf(nprocs')
             /\ StatusDictIn(Sync("status"), n, "", process', alive', started_at').running
             /\ StatusDictIn(Sync("status"), n, "", process', alive', started_at').pid
                    = PidOf(nprocs')]_vars

\* C4 witness: a start has just spawned the second process of a service
C4_Witness ==
    /\ ret.op = "start"
    /\ ret.message = "Started"
    /\ nprocs = 2
    /\ psvc[1] = psvc[2]

\* the reader tasks of service n that are not done: created or reading
ActiveReaders(n) == {t \in 1..nprocs : psvc[t] = n /\ tst[t] \in ActiveTask}

\* C5: after stop returns "Stopped", status reports running == false and no
\* reader task of the service is still pending or appending.
C5_StoppedMeansQuiet ==
    (ret.op = "stop" /\ ret.message = "Stopped")
    => /\ ~ret.running
       /\ ~StatusDict(Sync("status"), ret.service, "").running
       /\ ActiveReaders(ret.service) = {}

\* C6: when the grace window elapses, stop kills the process, waits for its
\* exit and returns, and status afterwards reports running == false.
C6_KilledThenNotRunning ==
    [][\A c \in Suspended :
          (c.pc = "killwait" /\ StopReturn(c))
          => /\ Kills(c.proc) >= 1
             /\ ~alive[c.proc]
             /\ ret'.message = "Stopped"
             /\ ~StatusDictIn(Sync("status"), c.name, "", process', alive',
                              started_at').running]_vars

\* C7: restart on a running service returns a snapshot of a process other
\* than the one that ran before, and the process that ran before has exited
\* before any newer process of the service is spawned.
C7_RestartSpawnsAnew ==
    [][\A c \in Suspended :
          c.op = "restart"
          => /\ (nprocs' # nprocs /\ psvc'[nprocs'] = c.name) => ~alive[c.proc]
             /\ (RestartReturn(c) /\ ret'.kind = "status")
                => /\ ret'.pid # PidOf(c.proc)
                   /\ ret'.pid = PidOf(process'[c.name])
                   /\ process'[c.name] > c.proc
                   /\ ~alive'[c.proc]]_vars

\* C7 witness: a restart that had to wait for the running process has just
\* returned "Started" for the second process of the service
C7_Witness ==
    /\ ret.op = "restart"
    /\ ret.awaited
    /\ ret.message = "Started"
    /\ ret.pid = PidOf(2)
    /\ psvc[1] = ret.service
    /\ ~alive[1]

\* the last k items of sequence q, all of q when it has fewer
Suffix(q, k) == [i \in 1..(IF Len(q) < k THEN Len(q) ELSE k) |->
                    q[i + (IF Len(q) < k THEN 0 ELSE Len(q) - k)]]

\* C8: a log buffer never holds more than LOG_BUFFER_SIZE lines, and it
\* holds exactly the last LOG_BUFFER_SIZE lines appended since it was last
\* cleared, oldest first (fewer when fewer were appended).
C8_RingBufferKeepsLast ==
    \A n \in SERVICE_CONFIG :
        /\ Len(logs[n]) <= LOG_BUFFER_SIZE
        /\ logs[n] = Suffix(appended[n], LOG_BUFFER_SIZE)

\* C8 witness: one more line than the buffer holds has been appended in
\* one run, all distinct, and the buffer has dropped the first of them
C8_Witness ==
    \E n \in SERVICE_CONFIG :
        /\ Len(appended[n]) = LOG_BUFFER_SIZE + 1
        /\ \A i, j \in 1..Len(appended[n]) : appended[n][i] = appended[n][j] => i = j
        /\ \A i \in 1..Len(appended[n]) : appended[n][i] = <<process[n], i>>
        /\ logs[n] = [i \in 1..LOG_BUFFER_SIZE |-> <<process[n], i + 1>>]

\* C9: view_logs(name, k) reports lines_requested = max(1, min(k, capacity)),
\* lines_returned = min(lines_requested, lines in the buffer) and the last
\* lines_returned lines of the buffer in their order, for every integer k.
C9_ViewLogsClamps ==
    (ret.op = "view_logs" /\ ret.service \in SERVICE_CONFIG)
    => LET k == ret.lines
           want == IF k < 1 THEN 1
                   ELSE IF k > LOG_BUFFER_SIZE THEN LOG_BUFFER_SIZE ELSE k
           have == Len(logs[ret.service])
           got == IF want < have THEN want ELSE have
       IN /\ ret.kind = "logs"
          /\ ret.lines_requested = want
          /\ ret.lines_requested \in 1..LOG_BUFFER_SIZE
          /\ ret.lines_returned = got
          /\ Len(ret.logs) = got
          /\ \A i \in 1..got : ret.logs[i] = logs[ret.service][have - got + i]

\* C9 witness: view_logs(name, 0) has just returned the newest line of a
\* full buffer
C9_Witness ==
    /\ ret.op = "view_logs"
    /\ ret.kind = "logs"
    /\ ret.lines = 0
    /\ ret.lines_requested = 1
    /\ ret.lines_returned = 1
    /\ Len(logs[ret.service]) = LOG_BUFFER_SIZE
    /\ ret.logs = <<logs[ret.service][LOG_BUFFER_SIZE]>>

\* service n is running and the reader task of its process has read all the
\* process has written
Drained(n) ==
    /\ Running(n)
    /\ reader_task[n] # NoTask
    /\ tst[reader_task[n]] \in {"reading", "done"}
    /\ tproc[reader_task[n]] = process[n]
    /\ pipe[process[n]] = <<>>

\* C10: while the running process has produced at most LOG_BUFFER_SIZE lines
\* and the reader has drained them, view_logs(name, LOG_BUFFER_SIZE) returns
\* exactly the lines the current process wrote, in order, and no line of an
\* earlier run.
C10_LogRoundTrip ==
    \A n \in SERVICE_CONFIG :
        (Drained(n) /\ written[process[n]] <= LOG_BUFFER_SIZE)
        => LogSnapshot(n, LOG_BUFFER_SIZE).logs
               = [i \in 1..written[process[n]] |-> <<process[n], i>>]

\* C9 witness of the upper clamp: view_logs asked for more than the buffer
\* holds and got the whole full buffer
C9_WitnessAbove ==
    /\ ret.op = "view_logs"
    /\ ret.lines > LOG_BUFFER_SIZE
    /\ ret.lines_requested = LOG_BUFFER_SIZE
    /\ ret.logs = logs[ret.service]
    /\ Len(ret.logs) = LOG_BUFFER_SIZE

\* C11: however stop calls for one running service interleave, a process is
\* sent the cooperative signal at most once and is killed at most once.
C11_NoDuplicateEscalation ==
    \A p \in Procs :
        /\ Signals(p) <= 1
        /\ Kills(p) <= 1

\* the processes spawned for service n that the OS reports alive
LiveProcs(n) == {p \in 1..nprocs : psvc[p] = n /\ alive[p]}

\* C12: whatever start, stop and restart calls and process exits interleave,
\* a service has at most one live process spawned by the supervisor, and it
\* is the one the record's handle refers to.
C12_OneLiveProcess ==
    \A n \in SERVICE_CONFIG :
        /\ Cardinality(LiveProcs(n)) <= 1
        /\ LiveProcs(n) \subseteq {process[n]}

\* C12 witness: the second process of a service is alive, spawned after the
\* first exited and while a stop of the first is still suspended
C12_Witness ==
    \E c \in Suspended :
        /\ c.proc = 1
        /\ psvc[2] = c.name
        /\ ~alive[1]
        /\ alive[2]
        /\ LiveProcs(c.name) = {2}

\* C13: a service has at most one active reader task, it is the record's
\* _reader_task, and once it reads it reads the output of the record's
\* current process.
C13_OneBoundReader ==
    \A n \in SERVICE_CONFIG :
        /\ Cardinality(ActiveReaders(n)) <= 1
        /\ \A t \in ActiveReaders(n) :
              /\ t = reader_task[n]
              /\ tst[t] = "reading" => tproc[t] = process[n]

\* C14: whenever a service is not running its record holds no process
\* handle and status reports no pid; the snapshot stop returns with
\* "Stopped" has no pid.
C14_NoHandleWhenNotRunning ==
    /\ \A n \in SERVICE_CONFIG :
          ~Running(n) => /\ process[n] = NoProc
                         /\ StatusDict(Sync("status"), n, "").pid = NoProc
    /\ (ret.op = "stop" /\ ret.message = "Stopped") => ret.pid = NoProc

\* C15: when the spawn fails inside start, the caller gets the error, the
\* service is not running afterwards, no handle and no started_at are stored,
\* no process exists that did not before and no reader task is created.
C15_SpawnFailureLeavesStopped ==
    [][ret'.message = "Spawn failed"
       => /\ ret'.kind = "error"
          /\ ret'.service \in SERVICE_CONFIG
          /\ ~RunningIn(process', alive', ret'.service)
          /\ ~StatusDictIn(Sync("status"), ret'.service, "", process', alive',
                           started_at').running
          /\ UNCHANGED <<process, started_at, reader_task, osVars>>
          /\ \A t \in Procs : tst'[t] = "new" => tst[t] = "new"]_vars

\* C15 witness: a start has just failed to spawn for a service that ran
\* before
C15_Witness ==
    /\ ret.op = "start"
    /\ ret.message = "Spawn failed"
    /\ process[ret.service] # NoProc
    /\ started_at[ret.service] = process[ret.service]

\* C16: the registry never holds more than one record per configured name:
\* a record is constructed at the first lookup of the name only, every later
\* lookup finds it, no step removes a name, and no unknown name gets one.
C16_OneRecordPerName ==
    [][/\ services \subseteq services'
       /\ services' \subseteq SERVICE_CONFIG
       /\ \A n \in SERVICE_CONFIG :
             /\ created'[n] = (IF n \in services' THEN 1 ELSE 0)
             /\ n \in services => created'[n] = created[n]]_vars

\* C16 witness: both services have their record and a start has just looked
\* one of them up again
C16_Witness ==
    /\ services = SERVICE_CONFIG
    /\ ret.op = "start"
    /\ ret.message = "Already running"
    /\ created[ret.service] = 1

\* the calls the step suspends or moves on: those with more copies in flight
\* after the step than before
Entered == {d \in BagToSet(inflight') : CopiesIn(d, inflight') > CopiesIn(d, inflight)}

\* the calls the step resumes or moves on
Left == {c \in Suspended : CopiesIn(c, inflight') < CopiesIn(c, inflight)}

\* C17 (as the code has it): a stop suspends in the bounded wait only after
\* it attempted the signal on the record's live process; it kills only by
\* timing out of that bounded wait; a stop that returns from the bounded
\* wait has killed nothing; and a reader task is cancelled only by a call
\* whose own process has exited.
C17_EscalationOrdered ==
    [][/\ \A d \in Entered :
             /\ d.pc = "wait" => /\ alive[d.proc]
                                 /\ process[d.name] = d.proc
                                 /\ Left = {}
             /\ d.pc = "killwait"
                   => \E c \in Left :
                         /\ c.pc = "wait"
                         /\ d = Call(c.op, c.name, "killwait", c.proc, c.sig)
       /\ (Entered = {} /\ Left # {})
             => \A c \in Left : /\ ~alive[c.proc]
                                /\ KillsIn(inflight', c.proc)
                                      = Kills(c.proc) - (IF c.pc = "killwait" THEN 1 ELSE 0)
       /\ \A t \in Procs :
             (tst'[t] = "cancelled" /\ tst[t] # "cancelled")
                => \E c \in Left : /\ Entered = {}
                                   /\ c.name = psvc[t]
                                   /\ ~alive[c.proc]]_vars

\* C17 witness: a stop whose signal was delivered has timed out, killed its
\* process and the process has exited; its reader task is still to be
\* cancelled
C17_Witness ==
    \E c \in Suspended :
        /\ c.op = "stop"
        /\ c.pc = "killwait"
        /\ c.sig
        /\ ~alive[c.proc]
        /\ process[c.name] = c.proc
        /\ tst[reader_task[c.name]] \in ActiveTask

\* C17 as stated: the forced kill is never issued for a process that has
\* exited within the grace window.
C17_KillOnlyIfAlive ==
    [][\A c \in Suspended : Timeout(c) => alive[c.proc]]_vars

\* C18: a stop whose signal could not be sent does not raise: it waits, and
\* when it returns it returns a snapshot with "Stopped" and running false.
C18_SignalFailureAbsorbed ==
    [][\A c \in Suspended :
          (c.op = "stop" /\ ~c.sig /\ StopReturn(c))
          => /\ ret'.kind = "status"
             /\ ret'.message = "Stopped"
             /\ ~ret'.running]_vars

\* C19: while a stop is in flight no start or restart takes effect on the
\* record of the same service: its handle and its reader task stay the ones
\* the stop saw, so the stop cancels no reader created after it began and
\* never returns "Stopped" for a service that is running again.
C19_StopSerialized ==
    [][\A c \in Suspended :
          c.op = "stop"
          => /\ process'[c.name] = process[c.name]
             /\ reader_task'[c.name] = reader_task[c.name]
             /\ StopReturn(c) => /\ process[c.name] = c.proc
                                 /\ reader_task[c.name] = c.proc
                                 /\ ~ret'.running]_vars

\* C20: a start, stop, restart, status or view_logs on one service (a step
\* that returns a result for it or suspends a coroutine of it), and the
\* resumption of a stop or restart of it, leaves the other service's handle,
\* started_at, log buffer, reader task, processes and tasks as they were;
\* and while a stop or restart of one service is suspended, every operation
\* on the other service can still be taken.
C20_ServicesIndependent ==
    /\ [][\A n \in SERVICE_CONFIG : \A m \in SERVICE_CONFIG \ {n} :
            (ret'.service = n \/ \E d \in Entered : d.name = n)
            => /\ process'[m] = process[m]
               /\ started_at'[m] = started_at[m]
               /\ logs'[m] = logs[m]
               /\ reader_task'[m] = reader_task[m]
               /\ \A p \in Procs :
                     psvc[p] = m => /\ psvc'[p] = m
                                    /\ alive'[p] = alive[p]
                                    /\ tst'[p] = tst[p]
                                    /\ tproc'[p] = tproc[p]]_vars
    /\ [](\A n \in SERVICE_CONFIG : \A m \in SERVICE_CONFIG \ {n} :
            (\E c \in Suspended : c.name = n)
            => /\ ENABLED Start(m)
               /\ ENABLED Stop(m, MaxCalls + 1)
               /\ ENABLED Restart(m, MaxCalls + 1)
               /\ ENABLED Status(m)
               /\ ENABLED ViewLogs(m, DefaultLines))

\* C20 witness: while a stop of one service is waiting for its live process,
\* a start of the other service has just returned "Started"
C20_Witness ==
    \E c \in Suspended :
        /\ c.op = "stop"
        /\ alive[c.proc]
        /\ ret.op = "start"
        /\ ret.message = "Started"
        /\ ret.service \in SERVICE_CONFIG \ {c.name}
        /\ Running(ret.service)

====
